---- MODULE Spec2Model ----
(***************************************************************************)
(* Train_delays_and_services: the collector (data_collection.py) and the   *)
(* merge script (merge_data.py) as state machines.                          *)
(*                                                                          *)
(*   SpecFetch   : one call of download_csv_for_date, one loop iteration    *)
(*                 per step, against a scripted server.                     *)
(*   SpecCollect : one run of collect_csvs / collect_csvs_with_browser,     *)
(*                 one date per step, then the concatenation.               *)
(*   SpecMerge   : one run of the merge_data.py script, statement by        *)
(*                 statement.                                               *)
(*                                                                          *)
(* Strings are TLA+ strings; a URL, a template and a date string are        *)
(* sequences of string tokens, a file is a sequence of lines.               *)
(***************************************************************************)
EXTENDS Integers, Sequences, FiniteSets, TLC

VARIABLES
    dl,                \* download_csv_for_date: the locals of one call
    start_date,        \* collect_csvs: arguments
    end_date,
    url_template,
    use_browser,       \* which of the two collect functions runs
    sync_playwright,   \* FALSE when the import of line 17 failed (None)
    result,            \* collect_csvs: "" while running, then its outcome
    current,           \* daterange: the generator's `current`
    downloaded_files,  \* collect_csvs: list of saved paths
    fs,                \* the files on disk: path -> lines
    calls,             \* the fetcher calls made so far, with their outcomes
    wire,              \* HTTP requests put on the wire during the run
    log,               \* the console: one entry per print
    cpc,               \* collect_csvs: position
    files,             \* merge_data: the glob's result, a list of files
    dfs,               \* merge_data: the frames read
    df,                \* merge_data: the concatenated table
    bad_date,          \* merge_data: line 41
    mpc,               \* merge_data: position in the script
    merr,              \* merge_data: the exception that ended the script
    argv,              \* main: the command line
    mainpc,            \* main: position
    exit_code,         \* main: the process's exit code, -1 while running
    stdio,             \* main: what main itself prints, with the stream
    engine,            \* browser fetch: "playwright" or "selenium"
    bargs,             \* browser fetch: the arguments of the current call
    bpc,               \* browser fetch: position in the current call
    browsers,          \* browser fetch: every browser launched: open/closed
    dest_dir,          \* download_one: the directory, name -> file
    clock,             \* download_one: the file system's time
    history,           \* download_one: the calls that have ended
    svc,               \* main (v2): the service being extracted
    rows               \* main (v2): the rows extracted

vars == <<dl, start_date, end_date, url_template, use_browser,
          sync_playwright, result, current,
          downloaded_files, fs, calls, wire, log, cpc,
          files, dfs, df, bad_date, mpc, merr,
          argv, mainpc, exit_code, stdio,
          engine, bargs, bpc, browsers, dest_dir, clock, history,
          svc, rows>>

fetchVars == <<dl>>
collectVars == <<start_date, end_date, url_template, use_browser,
                 sync_playwright, result, current,
                 downloaded_files, fs, calls, wire, log, cpc>>
mergeVars == <<files, dfs, df, bad_date, mpc, merr>>
mainVars == <<argv, mainpc, exit_code, stdio>>
browserVars == <<engine, bargs, bpc, browsers, dest_dir, clock, history>>
extractVars == <<svc, rows>>

(***************************************************************************)
(* Bounds of the model.                                                     *)
(***************************************************************************)
MaxScript == 3     \* scripted server responses before its steady answer
MaxRetries == 3    \* largest `retries` argument tried
MaxDay == 2        \* the dates tried are BaseDate .. BaseDate + MaxDay days
MaxFiles == 14     \* most files the glob matches
MaxRows == 2       \* most data rows of an export file
MaxCalls == 2      \* most calls of a browser fetcher into one directory

Max(a, b) == IF a >= b THEN a ELSE b

RECURSIVE Pow2(_)
Pow2(n) == IF n <= 0 THEN 1 ELSE 2 * Pow2(n - 1)

RECURSIVE Concat(_)
\* "".join(tokens)
Concat(ts) == IF ts = <<>> THEN "" ELSE Head(ts) \o Concat(Tail(ts))

(***************************************************************************)
(* Calendar dates: datetime.date, and date + timedelta(days=1).             *)
(***************************************************************************)
IsLeap(y) == (y % 4 = 0 /\ y % 100 # 0) \/ y % 400 = 0

DaysInMonth(y, m) ==
    IF m = 2 THEN (IF IsLeap(y) THEN 29 ELSE 28)
    ELSE IF m \in {4, 6, 9, 11} THEN 30 ELSE 31

NextDay(t) ==
    IF t.d < DaysInMonth(t.y, t.m) THEN [t EXCEPT !.d = t.d + 1]
    ELSE IF t.m < 12 THEN [y |-> t.y, m |-> t.m + 1, d |-> 1]
    ELSE [y |-> t.y + 1, m |-> 1, d |-> 1]

\* The first date of the model's window: the window crosses 29 February.
BaseDate == [y |-> 2024, m |-> 2, d |-> 28]

RECURSIVE DateOf(_)
\* BaseDate + timedelta(days=n)
DateOf(n) == IF n <= 0 THEN BaseDate ELSE NextDay(DateOf(n - 1))

RECURSIVE Pad(_, _)
\* "%0<w>d" % n
Pad(n, w) == IF w <= 0 THEN "" ELSE Pad(n \div 10, w - 1) \o ToString(n % 10)

\* date <= date
DateLE(a, b) ==
    \/ a.y < b.y
    \/ a.y = b.y /\ a.m < b.m
    \/ a.y = b.y /\ a.m = b.m /\ a.d <= b.d

_format_date_for_template(t) ==
    [date |-> Pad(t.y, 4) \o Pad(t.m, 2) \o Pad(t.d, 2),
     yyyy |-> Pad(t.y, 4),
     mm   |-> Pad(t.m, 2),
     dd   |-> Pad(t.d, 2)]

(***************************************************************************)
(* URL templates.  A template is a sequence of tokens: literals, "/", "?",  *)
(* and replacement fields "{name}".  "{" alone is an unbalanced brace.      *)
(***************************************************************************)
BraceTokens == {"{date}", "{yyyy}", "{mm}", "{dd}", "{id}", "{"}

\* The index of the first token str.format cannot resolve with the keyword
\* arguments kw (a function from field tokens to strings), 0 when none.
FirstBadField(tmpl, kw) ==
    LET bad == {i \in 1..Len(tmpl) :
                   tmpl[i] \in BraceTokens /\ tmpl[i] \notin DOMAIN kw}
    IN IF bad = {} THEN 0 ELSE CHOOSE i \in bad : \A j \in bad : i <= j

\* str.format(**kw): KeyError for an unknown field, ValueError for an
\* unbalanced brace, otherwise every field replaced by its argument;
\* arguments the template does not use are ignored.
StrFormat(tmpl, kw) ==
    LET b == FirstBadField(tmpl, kw) IN
    IF b # 0
    THEN [ok |-> FALSE,
          error |-> IF tmpl[b] = "{" THEN "ValueError" ELSE "KeyError",
          url |-> <<>>]
    ELSE [ok |-> TRUE, error |-> "",
          url |-> [i \in 1..Len(tmpl) |->
                     IF tmpl[i] \in DOMAIN kw THEN kw[tmpl[i]] ELSE tmpl[i]]]

\* data_collection.py 137-141 (and 42-48): the URL of date d.
ResolveUrl(tmpl, d) ==
    LET fmt == _format_date_for_template(d) IN
    IF \E i \in 1..Len(tmpl) : tmpl[i] = "{date}"
    THEN StrFormat(tmpl, [t \in {"{date}"} |-> fmt.date])
    ELSE StrFormat(tmpl, [t \in {"{date}", "{yyyy}", "{mm}", "{dd}"} |->
                            IF t = "{date}" THEN fmt.date
                            ELSE IF t = "{yyyy}" THEN fmt.yyyy
                            ELSE IF t = "{mm}" THEN fmt.mm ELSE fmt.dd])

\* urllib.parse.urlparse(url).path: token 1 is scheme and authority; the
\* path runs to the first "?" or "#".
UrlPath(url) ==
    LET stops == {i \in 2..Len(url) : url[i] \in {"?", "#"}}
        last == IF stops = {} THEN Len(url)
                ELSE (CHOOSE i \in stops : \A j \in stops : i <= j) - 1
    IN SubSeq(url, 2, last)

\* os.path.basename: what follows the last "/".
Basename(path) ==
    LET slashes == {i \in 1..Len(path) : path[i] = "/"}
        from == IF slashes = {} THEN 1
                ELSE (CHOOSE i \in slashes : \A j \in slashes : i >= j) + 1
    IN Concat(SubSeq(path, from, Len(path)))

\* data_collection.py 143-148: where the download of date d is saved.
DestPath(url, d) ==
    LET filename == Basename(UrlPath(url)) IN
    IF filename = ""
    THEN "data_RDG_" \o _format_date_for_template(d).date \o ".csv"
    ELSE filename

\* data_collection.py 82-83: the browser fetcher's name for date d.
BrowserDestPath(d) == "data_" \o _format_date_for_template(d).date \o ".csv"

(***************************************************************************)
(* The server.  A response is an HTTP status with a body, or a network-     *)
(* level failure (status 0).  A server answers its script, one response     *)
(* per request, and then its steady answer for ever.                        *)
(***************************************************************************)
ErrorPage == <<"error page">>

HttpResponse(status, body) == [kind |-> "http", status |-> status, body |-> body]
NetworkError == [kind |-> "neterr", status |-> 0, body |-> <<>>]

NextResponse(server) ==
    IF server.script = <<>> THEN server.steady ELSE Head(server.script)

Advance(server) ==
    IF server.script = <<>> THEN server
    ELSE [server EXCEPT !.script = Tail(server.script)]

(***************************************************************************)
(* session.get through the mounted adapter: urllib3's                       *)
(* Retry(total=retries, backoff_factor=1, status_forcelist=[...]).          *)
(* A GET answered by a status of the forcelist, or failing at network       *)
(* level, is sent again while `total` lasts, after a backoff of             *)
(* backoff_factor * 2^(consecutive errors - 1) seconds (none after the      *)
(* first error).  Responses carry no Retry-After header.                    *)
(* Events: [e |-> "request", n |-> status], [e |-> "backoff", n |-> secs].  *)
(***************************************************************************)
status_forcelist == {429, 500, 502, 503, 504}
backoff_factor == 1

BackoffTime(errors) ==
    IF errors <= 1 THEN 0 ELSE backoff_factor * Pow2(errors - 1)

RECURSIVE UrlOpen(_, _, _, _)
UrlOpen(server, total, errors, events) ==
    LET r == NextResponse(server)
        sent == Append(events, [e |-> "request", n |-> r.status])
        retry == r.kind = "neterr" \/ r.status \in status_forcelist
        slept == IF BackoffTime(errors + 1) > 0
                 THEN Append(sent, [e |-> "backoff", n |-> BackoffTime(errors + 1)])
                 ELSE sent
    IN IF ~retry
       THEN [outcome |-> "response", resp |-> r,
             server |-> Advance(server), events |-> sent]
       ELSE IF total - 1 < 0
       THEN [outcome |-> IF r.kind = "neterr" THEN "ConnectionError" ELSE "RetryError",
             resp |-> r, server |-> Advance(server), events |-> sent]
       ELSE UrlOpen(Advance(server), total - 1, errors + 1, slept)

\* Variant: the adapter is not mounted, one request per session.get.
SessionGet_Unmounted(server, retries, events) == UrlOpen(server, 0, 0, events)

SessionGet(server, retries, events) == UrlOpen(server, retries, 0, events)

(***************************************************************************)
(* download_csv_for_date: the retry loop, lines 157-183.                    *)
(* Events of the loop itself: [e |-> "sleep", n |-> secs] (time.sleep),     *)
(* [e |-> "write", n |-> 0] (the file is written).                          *)
(***************************************************************************)
DefaultRetries == 3

InitDownload(retries, server) ==
    [retries |-> retries, attempt |-> 0, server |-> server, events |-> <<>>,
     gets |-> 0, pc |-> "loop", error |-> "", status |-> 0,
     message_attempts |-> 0, written |-> FALSE, content |-> <<>>]

\* resp.raise_for_status()
RaisesForStatus(resp) == resp.status >= 400 /\ resp.status < 600

\* Variant: 404 is handled like any other HTTP error.
NoRetryStatus_Never(status) == FALSE

\* `if status == 404: raise`
NoRetryStatus(status) == status = 404

\* The number the RuntimeError's message gives: f"... after {retries} attempts"
MessageAttempts(s) == s.retries

\* One evaluation of the while condition and, when it holds, one pass of the
\* loop body; when it fails, the raise of line 183.
LoopStep(s) ==
    IF ~(s.attempt < Max(1, s.retries))
    THEN [s EXCEPT !.pc = "raised", !.error = "RuntimeError",
                   !.message_attempts = MessageAttempts(s)]
    ELSE
      LET g == SessionGet(s.server, s.retries, s.events)
          s1 == [s EXCEPT !.server = g.server, !.events = g.events,
                          !.gets = @ + 1]
      IN IF g.outcome = "response" /\ ~RaisesForStatus(g.resp)
         THEN [s1 EXCEPT !.pc = "returned", !.written = TRUE,
                         !.content = g.resp.body,
                         !.events = Append(@, [e |-> "write", n |-> 0])]
         ELSE IF g.outcome = "response" /\ NoRetryStatus(g.resp.status)
         THEN [s1 EXCEPT !.pc = "raised", !.error = "HTTPError",
                         !.status = g.resp.status]
         ELSE \* HTTPError with another status, or a RequestException
              [s1 EXCEPT !.attempt = @ + 1,
                         !.events = Append(@, [e |-> "sleep", n |-> 1 + (s.attempt + 1)])]

RECURSIVE RunLoop(_)
\* The loop run to its end.
RunLoop(s) == IF s.pc # "loop" THEN s ELSE RunLoop(LoopStep(s))

(***************************************************************************)
(* SpecFetch: one call of download_csv_for_date with the URL resolved.      *)
(***************************************************************************)
OkBody == <<"header", "row">>

Responses ==
    {HttpResponse(200, OkBody), HttpResponse(403, ErrorPage),
     HttpResponse(404, ErrorPage), HttpResponse(503, ErrorPage), NetworkError}

SeqUpTo(S, n) == UNION {[1..k -> S] : k \in 0..n}

Servers == [script : SeqUpTo(Responses, MaxScript), steady : Responses]

RetriesArgs == (0 - 1)..MaxRetries

IdleCollect ==
    /\ start_date = BaseDate /\ end_date = BaseDate /\ url_template = <<>>
    /\ use_browser = FALSE /\ sync_playwright = TRUE /\ result = ""
    /\ current = BaseDate /\ downloaded_files = <<>>
    /\ fs = <<>> /\ calls = <<>> /\ wire = 0 /\ log = <<>> /\ cpc = "idle"

IdleMerge ==
    /\ files = <<>> /\ dfs = <<>> /\ df = <<>>
    /\ bad_date = [isnan |-> FALSE, s |-> <<>>]
    /\ mpc = "idle" /\ merr = ""

IdleFetch == dl = InitDownload(0, [script |-> <<>>, steady |-> NetworkError])

IdleMain ==
    /\ argv = <<>> /\ mainpc = "idle"
    /\ exit_code = 0 - 1 /\ stdio = <<>>

IdleBrowser ==
    /\ engine = "" /\ bargs = [date |-> <<>>, login |-> FALSE, produced |-> FALSE]
    /\ bpc = "idle" /\ browsers = <<>>
    /\ dest_dir = <<>> /\ clock = 0 /\ history = <<>>

IdleExtract == svc = <<>> /\ rows = <<>>

InitFetch ==
    /\ \E r \in RetriesArgs, srv \in Servers : dl = InitDownload(r, srv)
    /\ IdleCollect
    /\ IdleMerge
    /\ IdleMain /\ IdleBrowser /\ IdleExtract

\* The response is good: the body is written and the path returned.
AttemptSaved ==
    /\ dl.pc = "loop"
    /\ LoopStep(dl).pc = "returned"
    /\ dl' = LoopStep(dl)
    /\ UNCHANGED <<collectVars, mergeVars, mainVars, browserVars, extractVars>>

\* HTTP 404: the HTTPError is raised again.
AttemptNotFound ==
    /\ dl.pc = "loop"
    /\ LoopStep(dl).error = "HTTPError"
    /\ dl' = LoopStep(dl)
    /\ UNCHANGED <<collectVars, mergeVars, mainVars, browserVars, extractVars>>

\* Any other failure: attempt += 1 and a sleep.
AttemptFailed ==
    /\ dl.pc = "loop"
    /\ LoopStep(dl).pc = "loop"
    /\ dl' = LoopStep(dl)
    /\ UNCHANGED <<collectVars, mergeVars, mainVars, browserVars, extractVars>>

\* The while condition fails: RuntimeError.
Exhausted ==
    /\ dl.pc = "loop"
    /\ LoopStep(dl).error = "RuntimeError"
    /\ dl' = LoopStep(dl)
    /\ UNCHANGED <<collectVars, mergeVars, mainVars, browserVars, extractVars>>

NextFetch == AttemptSaved \/ AttemptNotFound \/ AttemptFailed \/ Exhausted

SpecFetch == InitFetch /\ [][NextFetch]_vars

(***************************************************************************)
(* download_csv_for_date as collect_csvs calls it (default retries): the    *)
(* URL is resolved, then the loop runs to its end.                          *)
(***************************************************************************)
download_csv_for_date(tmpl, d, server) ==
    LET u == ResolveUrl(tmpl, d) IN
    IF ~u.ok
    THEN [ok |-> FALSE, error |-> u.error, status |-> 0, path |-> "",
          content |-> <<>>, events |-> <<>>]
    ELSE LET s == RunLoop(InitDownload(DefaultRetries, server)) IN
         [ok |-> s.pc = "returned", error |-> s.error, status |-> s.status,
          path |-> DestPath(u.url, d), content |-> s.content,
          events |-> s.events]

(***************************************************************************)
(* download_csv_with_browser, lines 38-91.  `outcome` is what the browser   *)
(* session runs into; `body` is the file the click downloads.               *)
(***************************************************************************)
BrowserOutcomes == {"ok", "goto failed", "download failed"}

download_csv_with_browser(tmpl, d, installed, outcome, body) ==
    LET u == ResolveUrl(tmpl, d)
        failed(err) == [ok |-> FALSE, error |-> err, status |-> 0, path |-> "",
                        content |-> <<>>, events |-> <<>>]
    IN IF ~installed THEN failed("ImportError")
       ELSE IF ~u.ok THEN failed(u.error)
       ELSE IF outcome # "ok" THEN failed("PlaywrightError")
       ELSE [ok |-> TRUE, error |-> "", status |-> 0,
             path |-> BrowserDestPath(d), content |-> body, events |-> <<>>]

(***************************************************************************)
(* collect_csvs and collect_csvs_with_browser.                              *)
(***************************************************************************)
OutputFile == "out/merged.csv"
OldOutput == <<"header", "old row">>

NoDate == [y |-> 0, m |-> 0, d |-> 0]

\* daterange: `while current <= end_date`
DateRangeYields(cur, last) == DateLE(cur, last)

\* Variant: only HTTP errors are caught.
Caught_HttpOnly(error) == error = "HTTPError"

\* The except clauses of lines 210-216 (301-302): HTTPError, then Exception.
Caught(error) ==
    error \in {"HTTPError", "RuntimeError", "KeyError", "ValueError",
               "ImportError", "PlaywrightError"}

WireRequests(events) == Len(SelectSeq(events, LAMBDA ev : ev.e = "request"))

\* The file system with `lines` written to `path`.
WriteFile(disk, path, lines) ==
    [p \in DOMAIN disk \cup {path} |-> IF p = path THEN lines ELSE disk[p]]

\* One pass of the for loop: the fetcher's result r for the date `current`.
CollectOne(r) ==
    /\ calls' = Append(calls, [date |-> current, ok |-> r.ok, body |-> r.content])
    /\ wire' = wire + WireRequests(r.events)
    /\ IF r.ok
       THEN /\ fs' = WriteFile(fs, r.path, r.content)
            /\ downloaded_files' = Append(downloaded_files, r.path)
            /\ log' = Append(log, [kind |-> "Downloaded", date |-> current,
                                   text |-> r.path])
            /\ current' = NextDay(current)
            /\ UNCHANGED <<cpc, result>>
       ELSE IF Caught(r.error)
       THEN /\ log' = Append(log, [kind |-> "Skipping", date |-> current,
                                   text |-> IF r.error = "HTTPError"
                                            THEN "HTTP " \o ToString(r.status)
                                            ELSE r.error])
            /\ current' = NextDay(current)
            /\ UNCHANGED <<fs, downloaded_files, cpc, result>>
       ELSE \* the exception leaves collect_csvs
            /\ cpc' = "raised" /\ result' = r.error
            /\ UNCHANGED <<fs, downloaded_files, log, current>>
    /\ UNCHANGED <<start_date, end_date, url_template, use_browser, sync_playwright>>

RECURSIVE ConcatLines(_, _, _)
\* Lines 222-234 (308-320): every file is read when its turn comes; the first
\* file that has lines is written whole, the others without their first line.
ConcatLines(paths, first, disk) ==
    IF paths = <<>> THEN <<>>
    ELSE LET lines == disk[Head(paths)] IN
         IF lines = <<>> THEN ConcatLines(Tail(paths), first, disk)
         ELSE IF first THEN lines \o ConcatLines(Tail(paths), FALSE, disk)
         ELSE Tail(lines) \o ConcatLines(Tail(paths), FALSE, disk)

\* Variant: the output file is opened before the check for an empty list.
Conclude_OpenFirst(downloaded, disk) ==
    IF downloaded = <<>>
    THEN [result |-> "RuntimeError", fs |-> WriteFile(disk, OutputFile, <<>>)]
    ELSE [result |-> "returned",
          fs |-> WriteFile(disk, OutputFile, ConcatLines(downloaded, TRUE, disk))]

\* Lines 218-237 (304-323): what follows the for loop.
Conclude(downloaded, disk) ==
    IF downloaded = <<>>
    THEN [result |-> "RuntimeError", fs |-> disk]
    ELSE [result |-> "returned",
          fs |-> WriteFile(disk, OutputFile, ConcatLines(downloaded, TRUE, disk))]

(***************************************************************************)
(* SpecCollect.                                                             *)
(***************************************************************************)
Dates == {DateOf(n) : n \in 0..MaxDay}

Templates ==
    {<<"https://host", "/", "data_", "{date}", ".csv">>,
     <<"https://host", "/", "{yyyy}", "/", "{mm}", "/", "{dd}", "/">>,
     <<"https://host", "/", "{date}", "/", "data.csv">>,
     <<"https://host", "/", "export", "?", "day=", "{date}">>,
     <<"https://host", "/", "data.csv">>,
     <<"https://host", "/", "{yyyy}", "{mm}", ".csv">>,
     <<"https://host", "/", "{id}", ".csv">>,
     <<"https://host", "/", "{date}", "_", "{dd}", ".csv">>}

\* The file the source serves for date d.
DayBody(d) ==
    <<"header", "row 1 of " \o _format_date_for_template(d).date,
                "row 2 of " \o _format_date_for_template(d).date>>

\* How the source may behave for date d.
DayServers(d) ==
    {[script |-> <<>>, steady |-> HttpResponse(200, DayBody(d))],
     [script |-> <<>>, steady |-> HttpResponse(200, <<>>)],
     [script |-> <<>>, steady |-> HttpResponse(404, ErrorPage)],
     [script |-> <<>>, steady |-> HttpResponse(503, ErrorPage)],
     [script |-> <<HttpResponse(503, ErrorPage), HttpResponse(503, ErrorPage),
                   HttpResponse(503, ErrorPage)>>,
      steady |-> HttpResponse(200, DayBody(d))]}

InitCollect ==
    /\ start_date \in Dates /\ end_date \in Dates
    /\ url_template \in Templates
    /\ use_browser \in BOOLEAN
    /\ sync_playwright \in (IF use_browser THEN BOOLEAN ELSE {TRUE})
    /\ current = start_date
    /\ downloaded_files = <<>>
    /\ fs \in {WriteFile(<<>>, OutputFile, OldOutput), <<>>}
    /\ calls = <<>> /\ wire = 0 /\ log = <<>>
    /\ cpc = "loop" /\ result = ""
    /\ IdleFetch
    /\ IdleMerge
    /\ IdleMain /\ IdleBrowser /\ IdleExtract

\* collect_csvs, one date.
FetchDate ==
    /\ cpc = "loop" /\ ~use_browser
    /\ DateRangeYields(current, end_date)
    /\ \E srv \in DayServers(current) :
          CollectOne(download_csv_for_date(url_template, current, srv))
    /\ UNCHANGED <<fetchVars, mergeVars, mainVars, browserVars, extractVars>>

\* collect_csvs_with_browser, one date.
FetchDateWithBrowser ==
    /\ cpc = "loop" /\ use_browser
    /\ DateRangeYields(current, end_date)
    /\ \E outcome \in BrowserOutcomes, body \in {DayBody(current), <<>>} :
          CollectOne(download_csv_with_browser(url_template, current,
                                               sync_playwright, outcome, body))
    /\ UNCHANGED <<fetchVars, mergeVars, mainVars, browserVars, extractVars>>

\* The loop is over and nothing was downloaded: RuntimeError.
NoFilesDownloaded ==
    /\ cpc = "loop"
    /\ ~DateRangeYields(current, end_date)
    /\ Conclude(downloaded_files, fs).result = "RuntimeError"
    /\ cpc' = "raised" /\ result' = "RuntimeError"
    /\ fs' = Conclude(downloaded_files, fs).fs
    /\ UNCHANGED <<start_date, end_date, url_template, use_browser,
                   sync_playwright, current, downloaded_files, calls, wire, log>>
    /\ UNCHANGED <<fetchVars, mergeVars, mainVars, browserVars, extractVars>>

\* The loop is over: the downloaded files are concatenated into output_file.
MergeDownloaded ==
    /\ cpc = "loop"
    /\ ~DateRangeYields(current, end_date)
    /\ Conclude(downloaded_files, fs).result = "returned"
    /\ cpc' = "done" /\ result' = "returned"
    /\ fs' = Conclude(downloaded_files, fs).fs
    /\ log' = Append(log, [kind |-> "Merged", date |-> NoDate,
                           text |-> ToString(Len(downloaded_files))])
    /\ UNCHANGED <<start_date, end_date, url_template, use_browser,
                   sync_playwright, current, downloaded_files, calls, wire>>
    /\ UNCHANGED <<fetchVars, mergeVars, mainVars, browserVars, extractVars>>

NextCollect ==
    FetchDate \/ FetchDateWithBrowser \/ NoFilesDownloaded \/ MergeDownloaded

SpecCollect == InitCollect /\ [][NextCollect]_vars

(***************************************************************************)
(* Claims about download_csv_for_date (SpecFetch).                          *)
(***************************************************************************)
IsRequest(ev) == ev.e = "request"
IsSleep(ev) == ev.e \in {"sleep", "backoff"}

StatusesOf(responses) == [i \in 1..Len(responses) |-> responses[i].status]

\* The statuses the server has given and will give, in order: those of the
\* requests made, then the rest of its script, then its steady answer.
Answers(s) ==
    StatusesOf([i \in 1..Len(SelectSeq(s.events, IsRequest)) |->
                  [status |-> SelectSeq(s.events, IsRequest)[i].n]])
    \o StatusesOf(s.server.script) \o <<s.server.steady.status>>

StrictlyIncreasing(q) == \A i, j \in 1..Len(q) : i < j => q[i].n < q[j].n

\* C3: a 404 response ends the call at once: it is the last event of the call
\* (no request and no sleep follows it), the call has raised the HTTPError,
\* and no file was written, for every value of retries.
C3_NotFoundFailsImmediately ==
    \A i \in 1..Len(dl.events) :
        dl.events[i] = [e |-> "request", n |-> 404]
        => /\ i = Len(dl.events)
           /\ dl.pc = "raised" /\ dl.error = "HTTPError" /\ dl.status = 404
           /\ ~dl.written
           /\ \A j \in 1..Len(dl.events) : dl.events[j].e # "write"

\* A 404 that arrives after two transient failures, with three retries allowed.
C3_Witness ==
    /\ dl.retries = 3
    /\ dl.error = "HTTPError"
    /\ Len(dl.events) >= 3
    /\ dl.events[1] = [e |-> "request", n |-> 503]

\* C4 (as claimed): at most max(1, retries) attempts are made, and a call that
\* ends exhausted reports in its message the number of attempts it made.
C4_AttemptsBoundedAndReported ==
    /\ dl.gets <= Max(1, dl.retries)
    /\ dl.error = "RuntimeError" => dl.message_attempts = dl.gets

\* C5 (as claimed): an HTTP error status outside the transient list is
\* permanent: nothing (no request, no sleep) follows such a response.
C5_PermanentStatusNotRetried ==
    \A i \in 1..Len(dl.events) :
        (/\ dl.events[i].e = "request"
         /\ dl.events[i].n >= 400
         /\ dl.events[i].n \notin status_forcelist)
        => i = Len(dl.events)

InRange(d) == DateLE(start_date, d) /\ DateLE(d, end_date)

\* C1: the fetcher is called for the dates of [start_date, end_date] in
\* ascending order, one call per date, starting with start_date and each next
\* call for the next calendar day; the run leaves the loop only when every date
\* of the range has had its call (exactly one call when start = end), and no
\* failure of the fetcher ends the run: it ends by the code after the loop.
C1_EveryDateFetchedOnce ==
    /\ \A i \in 1..Len(calls) :
          /\ calls[i].date = IF i = 1 THEN start_date ELSE NextDay(calls[i - 1].date)
          /\ InRange(calls[i].date)
    /\ cpc # "loop"
       => /\ \A d \in Dates :
                InRange(d) => Cardinality({i \in 1..Len(calls) : calls[i].date = d}) = 1
          /\ start_date = end_date => Len(calls) = 1
          /\ result \in {"returned", "RuntimeError"}
          /\ result = "RuntimeError" => downloaded_files = <<>>

\* A three-day run whose first two dates failed and whose third succeeded.
C1_Witness ==
    /\ cpc = "done"
    /\ Len(calls) = 3
    /\ ~calls[1].ok /\ ~calls[2].ok /\ calls[3].ok

HasToken(tmpl, tok) == \E i \in 1..Len(tmpl) : tmpl[i] = tok

\* A template with the combined field or the three separate ones, which
\* substitution resolves completely.
TemplateWellFormed(tmpl) ==
    /\ \/ HasToken(tmpl, "{date}")
       \/ HasToken(tmpl, "{yyyy}") /\ HasToken(tmpl, "{mm}") /\ HasToken(tmpl, "{dd}")
    /\ ResolveUrl(tmpl, BaseDate).ok
    /\ \A i \in 1..Len(tmpl) : ResolveUrl(tmpl, BaseDate).url[i] \notin BraceTokens

RECURSIVE DataRows(_)
\* The data rows (all lines but the first) of each body, in order.
DataRows(bodies) ==
    IF bodies = <<>> THEN <<>>
    ELSE Tail(Head(bodies)) \o DataRows(Tail(bodies))

\* The bodies of the dates that succeeded and served a file with lines.
FetchedBodies ==
    LET good == SelectSeq(calls, LAMBDA c : c.ok /\ c.body # <<>>)
    IN [i \in 1..Len(good) |-> good[i].body]

\* C2 (as claimed): the file collect_csvs writes is the header line of the
\* first successful date's file, then the data rows of each successful date's
\* own response body, in date order.
C2_MergedIsHeaderPlusOwnRows ==
    (/\ cpc = "done" /\ ~use_browser
     /\ TemplateWellFormed(url_template)
     /\ FetchedBodies # <<>>)
    => fs[OutputFile] = <<Head(FetchedBodies[1])>> \o DataRows(FetchedBodies)

\* C7: while no date has succeeded the output file is neither created nor
\* changed; every change of it happens in the step that ends a run with a
\* download; a run that ends with no download ends in the RuntimeError
\* ("No files were downloaded"), and a run that returns has a download.
C7_NoDataNoOutput ==
    /\ [][/\ downloaded_files' = <<>>
             => /\ (OutputFile \in DOMAIN fs') = (OutputFile \in DOMAIN fs)
                /\ OutputFile \in DOMAIN fs => fs'[OutputFile] = fs[OutputFile]
          /\ (OutputFile \in DOMAIN fs' /\ OutputFile \notin DOMAIN fs)
             => downloaded_files # <<>> /\ cpc' = "done"
         ]_vars
    /\ [](cpc # "loop" /\ downloaded_files = <<>> => result = "RuntimeError")
    /\ [](result = "returned" => downloaded_files # <<>>)

\* Three dates tried, none fetched, and no output file; and the empty range.
C7_Witness ==
    /\ cpc = "raised" /\ result = "RuntimeError"
    /\ Len(calls) = 3
    /\ OutputFile \notin DOMAIN fs

\* C8 (as claimed): with a malformed template the run is aborted by the
\* template error at its first date: no request is issued and no later date
\* is attempted.
C8_TemplateErrorAborts ==
    ~TemplateWellFormed(url_template)
    => /\ wire = 0
       /\ Len(calls) <= 1
       /\ calls # <<>> => cpc = "raised" /\ result \in {"KeyError", "ValueError"}

(***************************************************************************)
(* merge_data.py.  A string is a sequence of one-character tokens; "ZWSP"   *)
(* is U+200B, "NBSP" is U+00A0.  A cell of the run_date column is a string  *)
(* or the float NaN pandas gives a missing value.                           *)
(***************************************************************************)
DigitChars == {"0", "1", "2", "3", "4", "5", "6", "7", "8", "9"}

DigitVal(c) == CHOOSE n \in 0..9 : ToString(n) = c

RECURSIVE Chars(_, _)
\* The characters of "%0<w>d" % n
Chars(n, w) ==
    IF w <= 0 THEN <<>> ELSE Append(Chars(n \div 10, w - 1), ToString(n % 10))

RECURSIVE IntOf(_)
\* int(s) for a string of digits
IntOf(s) ==
    IF s = <<>> THEN 0 ELSE 10 * IntOf(SubSeq(s, 1, Len(s) - 1)) + DigitVal(s[Len(s)])

AllDigits(s) == \A i \in 1..Len(s) : s[i] \in DigitChars

\* str.isspace: NBSP is white space, ZWSP is not.
Whitespace == {" ", "NBSP"}

RECURSIVE LStrip(_)
LStrip(s) == IF s # <<>> /\ Head(s) \in Whitespace THEN LStrip(Tail(s)) ELSE s

RECURSIVE RStrip(_)
RStrip(s) ==
    IF s # <<>> /\ s[Len(s)] \in Whitespace
    THEN RStrip(SubSeq(s, 1, Len(s) - 1)) ELSE s

\* str.strip()
Strip(s) == LStrip(RStrip(s))

\* str(cell)
Str(cell) == IF cell.isnan THEN <<"n", "a", "n">> ELSE cell.s

NaT == [y |-> 0, m |-> 0, d |-> 0]

ValidDate(y, m, d) == m \in 1..12 /\ d >= 1 /\ d <= DaysInMonth(y, m)

\* pd.to_datetime(s, format=...) for the two formats of the script, on
\* strings whose fields are zero-padded; ok = FALSE stands for ValueError.
ToDatetime(s, format) ==
    LET sep == IF format = "%Y-%m-%d" THEN "-" ELSE "/"
        cuts == IF format = "%Y-%m-%d" THEN <<5, 8>> ELSE <<3, 6>>
        shaped == /\ Len(s) = 10
                  /\ s[cuts[1]] = sep /\ s[cuts[2]] = sep
                  /\ AllDigits(SubSeq(s, 1, cuts[1] - 1))
                  /\ AllDigits(SubSeq(s, cuts[1] + 1, cuts[2] - 1))
                  /\ AllDigits(SubSeq(s, cuts[2] + 1, 10))
        a == IntOf(SubSeq(s, 1, cuts[1] - 1))
        b == IntOf(SubSeq(s, cuts[1] + 1, cuts[2] - 1))
        c == IntOf(SubSeq(s, cuts[2] + 1, 10))
        y == IF format = "%Y-%m-%d" THEN a ELSE c
        d == IF format = "%Y-%m-%d" THEN c ELSE a
    IN IF shaped /\ ValidDate(y, b, d)
       THEN [ok |-> TRUE, ts |-> [y |-> y, m |-> b, d |-> d]]
       ELSE [ok |-> FALSE, ts |-> NaT]

\* Lines 21-29.
parse_run_date(cell) ==
    LET s == Strip(Str(cell)) IN
    IF ToDatetime(s, "%Y-%m-%d").ok THEN ToDatetime(s, "%Y-%m-%d").ts
    ELSE IF ToDatetime(s, "%d/%m/%Y").ok THEN ToDatetime(s, "%d/%m/%Y").ts
    ELSE NaT

(***************************************************************************)
(* Export files.  A file is a sequence of lines; a line is a preamble       *)
(* line, the header, or a data row with its run_date cell.                  *)
(***************************************************************************)
IsoString(y, m, d) == Chars(y, 4) \o <<"-">> \o Chars(m, 2) \o <<"-">> \o Chars(d, 2)
UkString(y, m, d) == Chars(d, 2) \o <<"/">> \o Chars(m, 2) \o <<"/">> \o Chars(y, 4)

StringCell(s) == [isnan |-> FALSE, s |-> s]
NaNCell == [isnan |-> TRUE, s |-> <<>>]

RunDateCells ==
    {StringCell(IsoString(2024, 6, 1)), StringCell(UkString(2024, 6, 1)),
     StringCell(IsoString(2024, 6, 2)),
     StringCell(<<"ZWSP">> \o IsoString(2024, 6, 1)), NaNCell}

PreambleLine == [kind |-> "preamble", run_date |-> NaNCell]
HeaderLine == [kind |-> "header", run_date |-> NaNCell]
RowLine(cell) == [kind |-> "row", run_date |-> cell]

\* An export: two preamble lines, the header, the rows.
Export(cells) ==
    <<PreambleLine, PreambleLine, HeaderLine>>
    \o [i \in 1..Len(cells) |-> RowLine(cells[i])]

\* An export without the preamble (the other version of the export tool).
BareExport(cells) ==
    <<HeaderLine>> \o [i \in 1..Len(cells) |-> RowLine(cells[i])]

ExportFiles ==
    {Export(cells) : cells \in SeqUpTo(RunDateCells, MaxRows) \ {<<>>}}
    \cup {BareExport(<<StringCell(IsoString(2024, 6, 1)),
                       StringCell(IsoString(2024, 6, 2))>>)}

\* The files the slice does not read all hold this one-row export.
FillerFile == Export(<<StringCell(IsoString(2024, 6, 1))>>)

skiprows == 2
SliceStart == 12
SliceStop == 16

\* The 1-based index in `files` of the file the read loop takes after it has
\* read k files of files[12:16]; 0 when the slice is exhausted.
SliceNext(k) ==
    IF SliceStart + k < SliceStop /\ SliceStart + k < Len(files)
    THEN SliceStart + k + 1 ELSE 0

\* pd.read_csv(f, skiprows=2) followed by temp_df["run_date"] (line 13): the
\* first line after the skipped ones is the header.
ReadCsv(lines, fileIndex) ==
    LET rest == SubSeq(lines, skiprows + 1, Len(lines)) IN
    IF rest = <<>> THEN [error |-> "EmptyDataError", rows |-> <<>>]
    ELSE IF Head(rest).kind # "header" THEN [error |-> "KeyError", rows |-> <<>>]
    ELSE [error |-> "",
          rows |-> [i \in 1..Len(rest) - 1 |->
                      [file |-> fileIndex, line |-> skiprows + 1 + i,
                       run_date |-> rest[i + 1].run_date]]]

RECURSIVE Flatten(_)
\* pd.concat(frames, ignore_index=True)
Flatten(frames) ==
    IF frames = <<>> THEN <<>> ELSE Head(frames) \o Flatten(Tail(frames))

IsNa(row) == row.run_date = NaT

(***************************************************************************)
(* SpecMerge: the script, statement by statement.                           *)
(***************************************************************************)
InitMerge ==
    /\ \E n \in 0..MaxFiles :
       \E read \in [(SliceStart + 1)..n -> ExportFiles] :
          files = [i \in 1..n |-> IF i <= SliceStart THEN FillerFile ELSE read[i]]
    /\ dfs = <<>> /\ df = <<>>
    /\ bad_date = [isnan |-> FALSE, s |-> <<>>]
    /\ mpc = "read" /\ merr = ""
    /\ IdleFetch
    /\ IdleCollect
    /\ IdleMain /\ IdleBrowser /\ IdleExtract

\* Lines 8-14: one file of files[12:16].
ReadFile ==
    /\ mpc = "read" /\ SliceNext(Len(dfs)) # 0
    /\ LET r == ReadCsv(files[SliceNext(Len(dfs))], SliceNext(Len(dfs))) IN
       IF r.error # ""
       THEN mpc' = "raised" /\ merr' = r.error /\ UNCHANGED dfs
       ELSE dfs' = Append(dfs, r.rows) /\ UNCHANGED <<mpc, merr>>
    /\ UNCHANGED <<files, df, bad_date, fetchVars, collectVars,
                   mainVars, browserVars, extractVars>>

\* Line 18: pd.concat raises ValueError on an empty list.
ConcatFrames ==
    /\ mpc = "read" /\ SliceNext(Len(dfs)) = 0
    /\ IF dfs = <<>>
       THEN mpc' = "raised" /\ merr' = "ValueError" /\ UNCHANGED df
       ELSE df' = Flatten(dfs) /\ mpc' = "parse" /\ UNCHANGED merr
    /\ UNCHANGED <<files, dfs, bad_date, fetchVars, collectVars,
                   mainVars, browserVars, extractVars>>

\* Lines 31-32: the raw column is kept and run_date parsed.
ParseRunDates ==
    /\ mpc = "parse"
    /\ df' = [i \in 1..Len(df) |->
                [file |-> df[i].file, line |-> df[i].line,
                 run_date_raw |-> df[i].run_date,
                 run_date |-> parse_run_date(df[i].run_date)]]
    /\ mpc' = "diagnose"
    /\ UNCHANGED <<files, dfs, bad_date, merr, fetchVars, collectVars,
                   mainVars, browserVars, extractVars>>

\* Line 41: .iloc[0] of the raw dates of the rows with a null date:
\* IndexError when there is none.
TakeBadDate ==
    /\ mpc = "diagnose"
    /\ IF SelectSeq(df, IsNa) = <<>>
       THEN mpc' = "raised" /\ merr' = "IndexError" /\ UNCHANGED bad_date
       ELSE /\ bad_date' = SelectSeq(df, IsNa)[1].run_date_raw
            /\ mpc' = "codes" /\ UNCHANGED merr
    /\ UNCHANGED <<files, dfs, df, fetchVars, collectVars,
                   mainVars, browserVars, extractVars>>

\* Lines 44-47: the characters of bad_date; TypeError when it is a float.
\* The script ends here: lines 48-55 are comments.
PrintCharCodes ==
    /\ mpc = "codes"
    /\ IF bad_date.isnan
       THEN mpc' = "raised" /\ merr' = "TypeError"
       ELSE mpc' = "done" /\ UNCHANGED merr
    /\ UNCHANGED <<files, dfs, df, bad_date, fetchVars, collectVars,
                   mainVars, browserVars, extractVars>>

NextMerge ==
    ReadFile \/ ConcatFrames \/ ParseRunDates \/ TakeBadDate \/ PrintCharCodes

SpecMerge == InitMerge /\ [][NextMerge]_vars

(***************************************************************************)
(* Claims about the merge script (SpecMerge).                               *)
(***************************************************************************)
\* Rows of one date are next to each other, dates ascend, null dates last.
SortedByRunDate(table) ==
    \A i, j \in 1..Len(table) :
        i < j => /\ table[i].run_date = NaT => table[j].run_date = NaT
                 /\ table[j].run_date # NaT
                    => DateLE(table[i].run_date, table[j].run_date)

\* C9 (as claimed): "2024-06-01" and "01/06/2024" are normalized to the same
\* date, and the table the finished script holds is sorted by run_date (the
\* first component of the sort key), so that rows of one date are contiguous.
C9_NormalizedAndSorted ==
    /\ parse_run_date(StringCell(IsoString(2024, 6, 1)))
       = parse_run_date(StringCell(UkString(2024, 6, 1)))
    /\ parse_run_date(StringCell(IsoString(2024, 6, 1))) # NaT
    /\ mpc = "done" => SortedByRunDate(df)

\* The data rows of the matching files, as <<file, line>>.
RowsOnDisk ==
    {<<f, l>> : f \in 1..Len(files), l \in 1..(skiprows + 1 + MaxRows)}
    \cap {fl \in (1..MaxFiles + 1) \X (1..(skiprows + 1 + MaxRows)) :
            /\ fl[1] <= Len(files) /\ fl[2] <= Len(files[fl[1]])
            /\ files[fl[1]][fl[2]].kind = "row"}

\* C10 (as claimed): given matching files the script never raises, and the table it ends with holds
\* every data row of every matching file exactly once, a row whose date
\* parses under neither format with a null date.
C10_CompletesWithEveryRow ==
    /\ files # <<>> => mpc # "raised"
    /\ mpc = "done"
       => /\ \A fl \in RowsOnDisk :
                Cardinality({i \in 1..Len(df) :
                               df[i].file = fl[1] /\ df[i].line = fl[2]}) = 1
          /\ \A i \in 1..Len(df) :
                (/\ ~ToDatetime(Strip(Str(df[i].run_date_raw)), "%Y-%m-%d").ok
                 /\ ~ToDatetime(Strip(Str(df[i].run_date_raw)), "%d/%m/%Y").ok)
                => df[i].run_date = NaT

(***************************************************************************)
(* data_collection_v2.py: mins, delay and extract_csv_row.  A value of the  *)
(* services JSON is None, a str (its characters) or an int.                 *)
(***************************************************************************)
None == [type |-> "NoneType", s |-> <<>>, v |-> 0]
PyStr(s) == [type |-> "str", s |-> s, v |-> 0]
PyInt(n) == [type |-> "int", s |-> <<>>, v |-> n]

\* A variant that takes midnight for no time at all.
Falsy_ZeroTime(t) ==
    \/ t.type = "NoneType"
    \/ t.type = "str" /\ (t.s = <<>> \/ t.s = <<"0", "0", "0", "0">>)
    \/ t.type = "int" /\ t.v = 0

\* `not t`: None, the empty str and the int 0 are false; every other str,
\* "0000" included, is true.
Falsy(t) ==
    \/ t.type = "NoneType"
    \/ t.type = "str" /\ t.s = <<>>
    \/ t.type = "int" /\ t.v = 0

\* int(t[:2]) * 60 + int(t[2:])
mins(t) ==
    IF Falsy(t) THEN None
    ELSE PyInt(IntOf(SubSeq(t.s, 1, IF Len(t.s) < 2 THEN Len(t.s) ELSE 2)) * 60
               + IntOf(SubSeq(t.s, 3, Len(t.s))))

delay(actual, planned) ==
    IF Falsy(actual) \/ Falsy(planned) THEN None
    ELSE PyInt(mins(actual).v - mins(planned).v)

\* dict.get(key): None for a key the dict does not have.
DictGet(d, key) == IF key \in DOMAIN d THEN d[key] ELSE None

\* The time columns of the row; the other columns copy fields of svc.
extract_csv_row(s) ==
    LET ld == s.locationDetail IN
    [gbtt_arr |-> DictGet(ld, "gbttBookedArrival"),
     gbtt_dep |-> DictGet(ld, "gbttBookedDeparture"),
     wtt_arr |-> DictGet(ld, "publicArrival"),
     wtt_dep |-> DictGet(ld, "publicDeparture"),
     wtt_pass |-> DictGet(ld, "publicPass"),
     actual_arr |-> DictGet(ld, "realtimeArrival"),
     actual_arr_delay_mins |-> delay(DictGet(ld, "realtimeArrival"),
                                     DictGet(ld, "gbttBookedArrival")),
     actual_dep |-> DictGet(ld, "realtimeDeparture"),
     actual_dep_delay_mins |-> delay(DictGet(ld, "realtimeDeparture"),
                                     DictGet(ld, "gbttBookedDeparture")),
     actual_pass |-> DictGet(ld, "realtimePass"),
     actual_pass_delay_mins |-> delay(DictGet(ld, "realtimePass"),
                                      DictGet(ld, "publicPass"))]

(***************************************************************************)
(* SpecExtract: one service of the response, each time field absent, empty *)
(* or an HHMM string, and the row main builds from it.                      *)
(***************************************************************************)
TimeKeys == {"gbttBookedArrival", "gbttBookedDeparture", "publicPass",
             "realtimeArrival", "realtimeDeparture", "realtimePass"}

TimeValues == {PyStr(<<>>), PyStr(<<"0", "0", "0", "0">>),
               PyStr(<<"0", "0", "0", "5">>), PyStr(<<"2", "3", "5", "5">>)}

InitExtract ==
    /\ svc \in {[locationDetail |-> ld] :
                   ld \in UNION {[K -> TimeValues] : K \in SUBSET TimeKeys}}
    /\ rows = <<>>
    /\ IdleFetch /\ IdleCollect /\ IdleMerge /\ IdleMain /\ IdleBrowser

\* rows = [extract_csv_row(svc, RUN_DATE) for svc in services]
ExtractRow ==
    /\ rows = <<>>
    /\ rows' = <<extract_csv_row(svc)>>
    /\ UNCHANGED <<svc, fetchVars, collectVars, mergeVars, mainVars, browserVars>>

NextExtract == ExtractRow

SpecExtract == InitExtract /\ [][NextExtract]_vars

(***************************************************************************)
(* Claims about extract_csv_row (SpecExtract).                              *)
(***************************************************************************)
\* HH*60 + MM of the four characters HHMM.
MinuteOfDay(hhmm) ==
    (10 * DigitVal(hhmm[1]) + DigitVal(hhmm[2])) * 60
    + 10 * DigitVal(hhmm[3]) + DigitVal(hhmm[4])

\* The time is missing from the service: no such field, null, or "".
TimeMissing(ld, key) ==
    \/ key \notin DOMAIN ld
    \/ ld[key].type = "NoneType"
    \/ ld[key].s = <<>>

\* delay column, actual time, scheduled time: arrival, departure, pass.
DelayColumns ==
    {<<"actual_arr_delay_mins", "realtimeArrival", "gbttBookedArrival">>,
     <<"actual_dep_delay_mins", "realtimeDeparture", "gbttBookedDeparture">>,
     <<"actual_pass_delay_mins", "realtimePass", "publicPass">>}

\* C13: for arrival, departure and pass, the delay column of an extracted
\* row is null exactly when the actual or the scheduled time is missing, and
\* otherwise is minute-of-day(actual) - minute-of-day(scheduled), with
\* minute-of-day(HHMM) = HH*60 + MM; "0000" is a time, not a missing one.
C13_DelayIsDifferenceOrNull ==
    rows # <<>> =>
        \A c \in DelayColumns :
            LET ld == svc.locationDetail
                missing == TimeMissing(ld, c[2]) \/ TimeMissing(ld, c[3])
                field == rows[1][c[1]]
            IN /\ (field.type = "NoneType") <=> missing
               /\ ~missing =>
                     /\ field.type = "int"
                     /\ field.v = MinuteOfDay(ld[c[2]].s) - MinuteOfDay(ld[c[3]].s)

\* A row whose train arrived at midnight, five minutes before a booked 0005,
\* passed at 0005 against a public 2355, and has no departure time.
C13_Witness ==
    /\ rows # <<>>
    /\ DOMAIN svc.locationDetail = TimeKeys \ {"realtimeDeparture"}
    /\ svc.locationDetail["realtimeArrival"].s = <<"0", "0", "0", "0">>
    /\ svc.locationDetail["gbttBookedArrival"].s = <<"0", "0", "0", "5">>
    /\ svc.locationDetail["realtimePass"].s = <<"0", "0", "0", "5">>
    /\ svc.locationDetail["publicPass"].s = <<"2", "3", "5", "5">>
    /\ rows[1].actual_arr_delay_mins = PyInt(0 - 5)
    /\ rows[1].actual_pass_delay_mins = PyInt(5 - 1435)
    /\ rows[1].actual_dep_delay_mins = None

(***************************************************************************)
(* data_collection.py: main.  argv is <<start_date, end_date>> as typed;    *)
(* url_template and --use-browser are taken as given.  What main itself     *)
(* prints goes to stdio; the lines collect_csvs prints are in log.          *)
(***************************************************************************)
CompactString(y, m, d) == Chars(y, 4) \o Chars(m, 2) \o Chars(d, 2)

\* datetime.strptime(s, "%Y%m%d") on strings of zero-padded fields.
StrptimeCompact(s) ==
    IF /\ Len(s) = 8 /\ AllDigits(s)
       /\ ValidDate(IntOf(SubSeq(s, 1, 4)), IntOf(SubSeq(s, 5, 6)),
                    IntOf(SubSeq(s, 7, 8)))
    THEN [ok |-> TRUE, ts |-> [y |-> IntOf(SubSeq(s, 1, 4)),
                               m |-> IntOf(SubSeq(s, 5, 6)),
                               d |-> IntOf(SubSeq(s, 7, 8))]]
    ELSE [ok |-> FALSE, ts |-> NaT]

\* Lines 238-245; ok = FALSE stands for argparse.ArgumentTypeError.
_parse_date(s) ==
    IF \E i \in 1..Len(s) : s[i] = "-"
    THEN ToDatetime(s, "%Y-%m-%d")
    ELSE StrptimeCompact(s)

\* sys.exit(code) raises SystemExit, which is not an Exception.
SystemExit == "SystemExit"

Stdout(text) == [stream |-> "stdout", text |-> text]
Stderr(text) == [stream |-> "stderr", text |-> text]

\* str(e) of the exception that left the collect function.
ErrorMessage(error) ==
    IF error = "RuntimeError"
    THEN "No files were downloaded; cannot create merged CSV"
    ELSE error

DateArgs ==
    {IsoString(t.y, t.m, t.d) : t \in Dates}
    \cup {CompactString(BaseDate.y, BaseDate.m, BaseDate.d),
          IsoString(2024, 2, 30)}

InitMain ==
    /\ argv \in DateArgs \X DateArgs
    /\ url_template \in Templates
    /\ use_browser \in BOOLEAN
    /\ sync_playwright \in BOOLEAN
    /\ fs \in {WriteFile(<<>>, OutputFile, OldOutput), <<>>}
    /\ start_date = BaseDate /\ end_date = BaseDate /\ current = BaseDate
    /\ downloaded_files = <<>> /\ calls = <<>> /\ wire = 0 /\ log = <<>>
    /\ cpc = "idle" /\ result = ""
    /\ mainpc = "start" /\ exit_code = 0 - 1 /\ stdio = <<>>
    /\ IdleFetch /\ IdleMerge /\ IdleBrowser /\ IdleExtract

\* Lines 249-266: parse_args and the range check.  argparse reports a bad
\* date, and parser.error a reversed range, on standard error with exit 2.
ParseArgs ==
    /\ mainpc = "start"
    /\ LET s == _parse_date(argv[1])
           e == _parse_date(argv[2])
       IN IF ~s.ok \/ ~e.ok
          THEN /\ stdio' = Append(stdio, Stderr("error: Invalid date"))
               /\ exit_code' = 2 /\ mainpc' = "exited"
               /\ UNCHANGED <<start_date, end_date, current>>
          ELSE IF ~DateLE(s.ts, e.ts)
          THEN /\ stdio' = Append(stdio,
                       Stderr("error: start_date must be <= end_date"))
               /\ exit_code' = 2 /\ mainpc' = "exited"
               /\ UNCHANGED <<start_date, end_date, current>>
          ELSE /\ start_date' = s.ts /\ end_date' = e.ts /\ current' = s.ts
               /\ mainpc' = "try"
               /\ UNCHANGED <<stdio, exit_code>>
    /\ UNCHANGED <<argv, url_template, use_browser, sync_playwright, result,
                   downloaded_files, fs, calls, wire, log, cpc>>
    /\ UNCHANGED <<fetchVars, mergeVars, browserVars, extractVars>>

\* Lines 274-282: inside the try, the Playwright check and the call of the
\* collect function.  The sys.exit(1) of line 278 is raised inside the try.
EnterTry ==
    /\ mainpc = "try"
    /\ IF use_browser /\ ~sync_playwright
       THEN /\ stdio' = stdio \o <<Stdout("Error: Playwright not installed")>>
                          \o (IF Caught(SystemExit)
                              THEN <<Stdout("Error: 1")>> ELSE <<>>)
            /\ exit_code' = (IF Caught(SystemExit) THEN 2 ELSE 1)
            /\ mainpc' = "exited" /\ UNCHANGED cpc
       ELSE /\ cpc' = "loop" /\ mainpc' = "collect"
            /\ UNCHANGED <<stdio, exit_code>>
    /\ UNCHANGED <<argv, start_date, end_date, url_template, use_browser,
                   sync_playwright, result, current, downloaded_files, fs,
                   calls, wire, log>>
    /\ UNCHANGED <<fetchVars, mergeVars, browserVars, extractVars>>

\* Lines 283-285 and the return: the collect function has returned, or has
\* raised and `except Exception` prints the message and exits with 2.
ExitMain ==
    /\ mainpc = "collect" /\ cpc \in {"done", "raised"}
    /\ IF cpc = "done"
       THEN exit_code' = 0 /\ UNCHANGED stdio
       ELSE IF Caught(result)
       THEN /\ stdio' = Append(stdio, Stdout("Error: " \o ErrorMessage(result)))
            /\ exit_code' = 2
       ELSE /\ stdio' = Append(stdio, Stderr("Traceback"))
            /\ exit_code' = 1
    /\ mainpc' = "exited"
    /\ UNCHANGED <<argv, collectVars, fetchVars, mergeVars, browserVars,
                   extractVars>>

NextMain == ParseArgs \/ EnterTry \/ NextCollect \/ ExitMain

SpecMain == InitMain /\ [][NextMain]_vars

(***************************************************************************)
(* Claims about main (SpecMain).                                            *)
(***************************************************************************)
\* The command line was accepted: both dates parse and start <= end.
ArgsAccepted ==
    /\ _parse_date(argv[1]).ok /\ _parse_date(argv[2]).ok
    /\ DateLE(_parse_date(argv[1]).ts, _parse_date(argv[2]).ts)

\* C12: for an accepted command line, main ends with exit code 0 when the
\* collection succeeded and otherwise with exit code 2 after printing one
\* line "Error: <message>" on standard output, with and without
\* --use-browser, Playwright installed or not.
C12_ExitCodeZeroOrTwo ==
    (mainpc = "exited" /\ ArgsAccepted) =>
        IF cpc = "done"
        THEN exit_code = 0 /\ stdio = <<>>
        ELSE /\ exit_code = 2
             /\ Len(stdio) = 1
             /\ stdio[1].stream = "stdout"

(***************************************************************************)
(* The browser fetchers: download_csv_with_browser (Playwright) and         *)
(* download_one (Selenium).  browsers lists every browser launched, each    *)
(* "open" or "closed"; the browser of the running call is the last one.     *)
(* dest_dir maps a file name (a sequence of tokens whose last is the        *)
(* extension) to its content and modification time.                         *)
(***************************************************************************)
Launch(brs) == Append(brs, "open")

\* browser.close() in the finally of line 91; driver.quit() in that of
\* line 178.
Close(brs) == [i \in 1..Len(brs) |-> IF i = Len(brs) THEN "closed" ELSE brs[i]]

\* A variant whose context manager leaves the browsers alone.
SyncPlaywrightExit_LeavesBrowsers(brs) == brs

\* The exit of `with sync_playwright() as p`: the Playwright driver is
\* stopped, and it closes every browser it launched that is still open.
SyncPlaywrightExit(brs) == [i \in 1..Len(brs) |-> "closed"]

DataFile(datestr) == <<"data_", datestr, ".csv">>
DebugFile(datestr) == <<"selenium_debug_", datestr, ".html">>

\* str.endswith
EndsWith(name, suffix) == name # <<>> /\ name[Len(name)] = suffix

\* The name Chrome gives the download: the one the site suggests, made
\* unique in the download directory.
ChromeDownloadName(dir) ==
    IF <<"export", ".csv">> \in DOMAIN dir
    THEN <<"export", " (1)", ".csv">> ELSE <<"export", ".csv">>

WriteDir(dir, name, content, t) ==
    [n \in DOMAIN dir \cup {name} |->
        IF n = name THEN [content |-> content, mtime |-> t] ELSE dir[n]]

\* shutil.move within one directory: a rename, which replaces dst and
\* keeps the file's modification time.
Move(dir, src, dst) ==
    [n \in (DOMAIN dir \ {src}) \cup {dst} |-> IF n = dst THEN dir[src] ELSE dir[n]]

\* max(csv_files, key=getmtime)
MostRecent(dir, names) ==
    CHOOSE n \in names : \A m \in names : dir[m].mtime <= dir[n].mtime

\* data_collection_worker.py 18-33: the date of iso_date; ok = FALSE stands
\* for the ValueError of fromisoformat, re-raised.
_format_date_for_template_from_iso(iso_date) ==
    LET dt == IF ToDatetime(iso_date, "%Y-%m-%d").ok
              THEN ToDatetime(iso_date, "%Y-%m-%d")
              ELSE IF Len(iso_date) = 8 /\ AllDigits(iso_date)
              THEN StrptimeCompact(iso_date)
              ELSE [ok |-> FALSE, ts |-> NaT]
    IN [ok |-> dt.ok, ts |-> dt.ts,
        fmt |-> IF dt.ok THEN _format_date_for_template(dt.ts)
                ELSE [date |-> "", yyyy |-> "", mm |-> "", dd |-> ""]]

\* The date of the running call: d of download_csv_with_browser, the parsed
\* iso_date of download_one.
CallTs ==
    IF engine = "playwright" THEN bargs.date
    ELSE _format_date_for_template_from_iso(bargs.date).ts

CallDate ==
    IF engine = "playwright" THEN _format_date_for_template(bargs.date).date
    ELSE _format_date_for_template_from_iso(bargs.date).fmt.date

\* The call ends: it returns dest_path or raises; dir and brs are the
\* directory and the browsers it leaves behind, t the time.
EndCall(outcome, error, dir, brs, t) ==
    /\ bpc' = outcome
    /\ browsers' = brs /\ dest_dir' = dir /\ clock' = t
    /\ history' = Append(history,
          [date |-> CallDate, ts |-> CallTs, outcome |-> outcome,
           error |-> error, produced |-> bargs.produced,
           content |-> IF outcome = "returned"
                       THEN dir[DataFile(CallDate)].content ELSE <<>>])
    /\ UNCHANGED <<engine, bargs>>

Proceed(to) ==
    /\ bpc' = to
    /\ UNCHANGED <<engine, bargs, browsers, dest_dir, clock, history>>

(***************************************************************************)
(* SpecBrowser: calls of one fetcher, one after the other, into one         *)
(* directory.                                                               *)
(***************************************************************************)
BrowserDates == {BaseDate, NextDay(BaseDate)}

IsoArgs ==
    {IsoString(t.y, t.m, t.d) : t \in BrowserDates}
    \cup {CompactString(BaseDate.y, BaseDate.m, BaseDate.d),
          <<"t", "o", "d", "a", "y">>}

BrowserTemplates ==
    {<<"https://host", "/", "export", "?", "day=", "{date}">>,
     <<"https://host", "/", "{id}", ".csv">>}

InitBrowser ==
    /\ engine \in {"playwright", "selenium"}
    /\ url_template \in BrowserTemplates
    /\ sync_playwright \in (IF engine = "playwright" THEN BOOLEAN ELSE {TRUE})
    /\ bargs \in [date : {<<>>}, login : BOOLEAN, produced : {FALSE}]
    /\ bpc = "idle" /\ browsers = <<>>
    /\ dest_dir = <<>> /\ clock = 0 /\ history = <<>>
    /\ start_date = BaseDate /\ end_date = BaseDate /\ current = BaseDate
    /\ use_browser = TRUE /\ result = ""
    /\ downloaded_files = <<>> /\ fs = <<>> /\ calls = <<>> /\ wire = 0
    /\ log = <<>> /\ cpc = "idle"
    /\ IdleFetch /\ IdleMerge /\ IdleMain /\ IdleExtract

\* The fetcher is called for a date; username and password are those of
\* the run.
Call ==
    /\ bpc \in {"idle", "returned", "raised"}
    /\ Len(history) < MaxCalls
    /\ \E d \in (IF engine = "playwright" THEN BrowserDates ELSE IsoArgs) :
          bargs' = [bargs EXCEPT !.date = d, !.produced = FALSE]
    /\ bpc' = "called"
    /\ UNCHANGED <<engine, browsers, dest_dir, clock, history>>
    /\ UNCHANGED <<fetchVars, collectVars, mergeVars, mainVars, extractVars>>

\* data_collection.py 38-50: the import check and the URL.
PwPrepare ==
    /\ bpc = "called" /\ engine = "playwright"
    /\ IF ~sync_playwright
       THEN EndCall("raised", "ImportError", dest_dir, browsers, clock)
       ELSE IF ~ResolveUrl(url_template, bargs.date).ok
       THEN EndCall("raised", ResolveUrl(url_template, bargs.date).error,
                    dest_dir, browsers, clock)
       ELSE Proceed("launch")
    /\ UNCHANGED <<fetchVars, collectVars, mergeVars, mainVars, extractVars>>

\* Line 52: p.chromium.launch.
PwLaunch ==
    /\ bpc = "launch"
    /\ \E ok \in BOOLEAN :
          IF ok
          THEN /\ bpc' = "new_page" /\ browsers' = Launch(browsers)
               /\ UNCHANGED <<engine, bargs, dest_dir, clock, history>>
          ELSE EndCall("raised", "launch", dest_dir,
                       SyncPlaywrightExit(browsers), clock)
    /\ UNCHANGED <<fetchVars, collectVars, mergeVars, mainVars, extractVars>>

\* Line 53: browser.new_page(), before the try: a failure leaves through
\* the with statement only.
PwNewPage ==
    /\ bpc = "new_page"
    /\ \E ok \in BOOLEAN :
          IF ok THEN Proceed("goto")
          ELSE EndCall("raised", "new_page", dest_dir,
                       SyncPlaywrightExit(browsers), clock)
    /\ UNCHANGED <<fetchVars, collectVars, mergeVars, mainVars, extractVars>>

\* Line 56: page.goto.  From here on a failure runs the finally and then
\* leaves the with statement.
PwGoto ==
    /\ bpc = "goto"
    /\ \E ok \in BOOLEAN :
          IF ok THEN Proceed(IF bargs.login THEN "login" ELSE "click")
          ELSE EndCall("raised", "goto", dest_dir,
                       SyncPlaywrightExit(Close(browsers)), clock)
    /\ UNCHANGED <<fetchVars, collectVars, mergeVars, mainVars, extractVars>>

\* Lines 59-60: login_playwright.
PwLogin ==
    /\ bpc = "login" /\ engine = "playwright"
    /\ \E ok \in BOOLEAN :
          IF ok THEN Proceed("click")
          ELSE EndCall("raised", "login", dest_dir,
                       SyncPlaywrightExit(Close(browsers)), clock)
    /\ UNCHANGED <<fetchVars, collectVars, mergeVars, mainVars, extractVars>>

\* Lines 72-75: the click inside expect_download; it fails when the button
\* is not found or no download starts.
PwClick ==
    /\ bpc = "click" /\ engine = "playwright"
    /\ \E ok \in BOOLEAN :
          IF ok
          THEN /\ bpc' = "save"
               /\ bargs' = [bargs EXCEPT !.produced = TRUE]
               /\ UNCHANGED <<engine, browsers, dest_dir, clock, history>>
          ELSE EndCall("raised", "click", dest_dir,
                       SyncPlaywrightExit(Close(browsers)), clock)
    /\ UNCHANGED <<fetchVars, collectVars, mergeVars, mainVars, extractVars>>

\* Lines 78-88: download.path(), the move to data_<date>.csv and the return.
PwSave ==
    /\ bpc = "save"
    /\ \E ok \in BOOLEAN :
          IF ok
          THEN EndCall("returned", "",
                       WriteDir(dest_dir, DataFile(CallDate), DayBody(CallTs),
                                clock + 1),
                       SyncPlaywrightExit(Close(browsers)), clock + 1)
          ELSE EndCall("raised", "download", dest_dir,
                       SyncPlaywrightExit(Close(browsers)), clock)
    /\ UNCHANGED <<fetchVars, collectVars, mergeVars, mainVars, extractVars>>

\* data_collection_worker.py 38-62: the date, the URL and the driver.  A
\* Chrome that fails to start leaves no browser behind.
SePrepare ==
    /\ bpc = "called" /\ engine = "selenium"
    /\ LET parsed == _format_date_for_template_from_iso(bargs.date) IN
       IF ~parsed.ok
       THEN EndCall("raised", "ValueError", dest_dir, browsers, clock)
       ELSE IF ~ResolveUrl(url_template, parsed.ts).ok
       THEN EndCall("raised", ResolveUrl(url_template, parsed.ts).error,
                    dest_dir, browsers, clock)
       ELSE \E ok \in BOOLEAN :
               IF ok
               THEN /\ bpc' = "get" /\ browsers' = Launch(browsers)
                    /\ UNCHANGED <<engine, bargs, dest_dir, clock, history>>
               ELSE EndCall("raised", "launch", dest_dir, browsers, clock)
    /\ UNCHANGED <<fetchVars, collectVars, mergeVars, mainVars, extractVars>>

\* Lines 64-80: driver.get; what the cookie banner does is swallowed.
SeGet ==
    /\ bpc = "get"
    /\ \E ok \in BOOLEAN :
          IF ok THEN Proceed(IF bargs.login THEN "login" ELSE "click")
          ELSE EndCall("raised", "get", dest_dir, Close(browsers), clock)
    /\ UNCHANGED <<fetchVars, collectVars, mergeVars, mainVars, extractVars>>

\* Lines 83-120: the login; its failure is caught and reported only.
SeLogin ==
    /\ bpc = "login" /\ engine = "selenium"
    /\ Proceed("click")
    /\ UNCHANGED <<fetchVars, collectVars, mergeVars, mainVars, extractVars>>

\* Lines 123-153: the first selector that can be clicked is clicked; the
\* click may or may not have put a finished file into dest_dir by the time
\* the sleeps are over.  No selector clicked: the page source is saved and
\* RuntimeError raised.
SeClick ==
    /\ bpc = "click" /\ engine = "selenium"
    /\ \E download_clicked \in BOOLEAN, produced \in BOOLEAN :
          IF ~download_clicked
          THEN EndCall("raised", "not clicked",
                       WriteDir(dest_dir, DebugFile(CallDate), <<"page source">>,
                                clock + 1),
                       Close(browsers), clock + 1)
          ELSE /\ bpc' = "find"
               /\ bargs' = [bargs EXCEPT !.produced = produced]
               /\ IF produced
                  THEN /\ dest_dir' = WriteDir(dest_dir, ChromeDownloadName(dest_dir),
                                               DayBody(CallTs), clock + 1)
                       /\ clock' = clock + 1
                  ELSE UNCHANGED <<dest_dir, clock>>
               /\ UNCHANGED <<engine, browsers, history>>
    /\ UNCHANGED <<fetchVars, collectVars, mergeVars, mainVars, extractVars>>

\* Lines 155-178: the most recently modified CSV of dest_dir is renamed to
\* data_<date>.csv and returned; no CSV at all is a RuntimeError.
SeFind ==
    /\ bpc = "find"
    /\ LET csv_files == {f \in DOMAIN dest_dir : EndsWith(f, ".csv")}
           src_path == MostRecent(dest_dir, csv_files)
           dest_path == DataFile(CallDate)
       IN IF csv_files = {}
          THEN EndCall("raised", "no csv", dest_dir, Close(browsers), clock)
          ELSE EndCall("returned", "",
                       IF src_path # dest_path
                       THEN Move(dest_dir, src_path, dest_path) ELSE dest_dir,
                       Close(browsers), clock)
    /\ UNCHANGED <<fetchVars, collectVars, mergeVars, mainVars, extractVars>>

NextBrowser ==
    \/ Call
    \/ PwPrepare \/ PwLaunch \/ PwNewPage \/ PwGoto \/ PwLogin \/ PwClick \/ PwSave
    \/ SePrepare \/ SeGet \/ SeLogin \/ SeClick \/ SeFind

SpecBrowser == InitBrowser /\ [][NextBrowser]_vars

C14_ReturnsOwnDownload ==
    engine = "selenium" =>
        \A i \in 1..Len(history) :
            (/\ history[i].outcome = "returned"
             /\ \A j \in 1..Len(history) :
                   j # i => history[j].date # history[i].date)
            => /\ history[i].produced
               /\ history[i].content = DayBody(history[i].ts)
               /\ DataFile(history[i].date) \in DOMAIN dest_dir
               /\ dest_dir[DataFile(history[i].date)].content = history[i].content

====
